---- MODULE Spec2Model ----
(***************************************************************************)
(* Model of the AIDE data engine batch pipeline                            *)
(*   aide-data-engine/aide_data_engine/pipeline/processor.py               *)
(*   aide-data-engine/aide_data_engine/services/{deduplication,            *)
(*       representative,classification}.py                                 *)
(*                                                                         *)
(* One DataProcessor runs its stage machine                                *)
(*   Fetch -> Embed -> Cluster -> SelectRepresentatives -> Classify ->     *)
(*   Persist                                                               *)
(* repeatedly over one item store (table naver_news).                      *)
(*                                                                         *)
(* Abstractions.                                                           *)
(*  - An article is its primary key i \in Items.  Its text is abstracted   *)
(*    to len(title)+len(description) (TextLen) and its source name.        *)
(*  - DeduplicationService and RepresentativeSelector are also exercised  *)
(*    on their own (SpecCluster, SpecSelect, SpecInfo) over inputs the     *)
(*    pipeline corpus does not contain.                                    *)
(*  - An embedding matrix is abstracted to the relation "cosine distance   *)
(*    <= eps" between rows (a set of unordered index pairs), which is all  *)
(*    DBSCAN reads of it.                                                  *)
(*  - Category names are written with the English glosses the module       *)
(*    docstring of classification.py gives for them.                       *)
(*  - Scores are kept as exact integers (millionths).                      *)
(*  - The ORM is modelled by what it does: a query loads objects into its  *)
(*    session, session.close() detaches them, and session.commit() writes  *)
(*    the changes of the objects attached to that session.  `store` is     *)
(*    the committed table, `objs` the article objects a run holds.         *)
(***************************************************************************)
EXTENDS Integers, Sequences, FiniteSets, TLC

\* ------------------------------------------------------------------ bounds
MaxItems == 4        \* rows in the store
MaxRuns  == 2        \* consecutive calls of DataProcessor.run
MaxLimit == 1        \* largest explicit `limit` argument of run
MaxPoints == 5       \* rows of an embedding matrix given to cluster alone
MaxMinSamples == 3   \* largest min_samples of a DeduplicationService
MaxCands == 3        \* candidates given to a RepresentativeSelector alone
MaxTitleLen == 2      \* longest title of the texts scored for information
MaxTextLen == 600    \* longest description of the texts scored for information
MaxCalls == 4        \* calls made on one EmbeddingService
MaxTexts == 2        \* texts or articles given to one embedding call
MaxSinkItems == 2    \* items given to one write call of a sink
MaxSinkCalls == 2    \* write calls made on one sink
MaxClock == 1        \* seconds that pass while a LocalSink is in use
MaxUrls == 2         \* distinct urls of the items given to a DBSink

Items == 1..MaxItems

\* A nullable column or an optional dictionary key: <<>> when NULL/absent,
\* <<v>> when it holds v.
NULL    == << >>
Some(v) == << v >>

\* ------------------------------------------------------- program constants
min_samples == 2                 \* DBSCANConfig.min_samples
eps == 3                         \* DBSCANConfig.eps = 0.3, in tenths
information_weight == 500        \* 0.5 after normalisation, in thousandths
source_reliability_weight == 500 \* 0.5 after normalisation, in thousandths
max_useful_length == 500         \* "assume max useful length = 500 chars"
trusted_score == 1000            \* reliability 1.0, in thousandths
unknown_score == 300             \* reliability 0.3, in thousandths
fallback_cap == 50               \* min(confidence, 50) when no valid category

trusted_sources == {"Chosun", "JoongAng", "DongA", "Hankyung", "MK"}

VALID_CATEGORIES ==
  << "Policy/Regulation", "Market Trends", "Finance/Investment",
     "Real Estate Development", "Corporate/Projects", "Legal/Litigation",
     "Economic Indicators", "Others" >>

ValidCategorySet == {VALID_CATEGORIES[k] : k \in 1..Len(VALID_CATEGORIES)}

\* ---------------------------------------------------------- the item store
\* Text length and source of the rows: a small corpus in which a long text
\* from an unknown source, a short text from a trusted source and equal
\* scores all occur.
TextLen(i) == IF i % 2 = 0 THEN 800 ELSE 10
TitleLen(i) == TextLen(i) \div 10
DescriptionLen(i) == TextLen(i) - TitleLen(i)
Source(i)  == IF i % 4 = 2 THEN "Other" ELSE "Chosun"

\* A row of naver_news as the pipeline reads and writes it.
RawRow(i, st) ==
  [ id |-> i, status |-> st,
    duplicate_cluster_id |-> NULL, duplicate_count |-> NULL,
    cluster_representative |-> NULL,
    classified_categories |-> NULL, tags |-> NULL,
    classification_confidence |-> NULL ]

VARIABLES
  store,            \* the table: Items -> row (the committed database state)
  runs,             \* number of run() calls that have returned
  pc,               \* position of the current run()
  articles,         \* list of fetched article ids (order of the query result)
  objs,             \* the fetched ORM objects (in memory, detached)
  embeddings,       \* "within eps" relation between rows of the matrix
  cluster_ids,      \* DBSCAN labels, aligned with articles
  representatives,  \* cluster id -> article id
  responses,        \* what the external classifier answered, per cluster id
  classifications,  \* cluster id -> classification result
  stats,            \* the statistics dictionary of the run
  exc,              \* the exception that aborted the run ("none" if none)
  log,              \* logger.error records of run()
  returned,         \* what the caller of run() received
  reported,         \* items counted in stats['processed'] by returned runs
  store_before,     \* the table as it was when the current run() was called
  dbs,              \* a DeduplicationService used on its own: its min_samples,
                    \* the distance matrix given to cluster, the labels returned
  sel,              \* a RepresentativeSelector used on its own: the weights
                    \* given to the constructor, the selector, the candidate
                    \* list and what select / select_from_clusters returned
  emb,              \* an EmbeddingService used on its own: the service, the
                    \* calls made on it so far and the last call
  lsink,            \* a LocalSink used on its own: its format, the files of
                    \* its output directory, the clock and the last write
  dbsink,           \* a DBSink used on its own: its configuration, the
                    \* committed tables and the last write
  conc              \* two DataProcessor.run() calls in flight on one table:
                    \* the table, the locals of each call, and how their
                    \* fetches and commits were ordered

vars == << store, runs, pc, articles, objs, embeddings, cluster_ids,
           representatives, responses, classifications, stats, exc, log,
           returned, reported, store_before, dbs, sel, emb, lsink,
           dbsink, conc >>

\* ====================================================== helper operators
Range(s) == {s[k] : k \in 1..Len(s)}

RECURSIVE SetToSeq(_)
\* the members of a finite set of integers in ascending order
SetToSeq(S) ==
  IF S = {} THEN << >>
  ELSE LET m == CHOOSE x \in S : \A y \in S : x <= y
       IN  << m >> \o SetToSeq(S \ {m})

Min(a, b) == IF a <= b THEN a ELSE b

\* ============================================== DeduplicationService
\* sklearn.cluster.DBSCAN(eps, min_samples, metric).fit_predict over n rows.
\* `near` is the set of unordered pairs {p, q}, p # q, of rows whose cosine
\* distance is <= eps; ms is the min_samples of the service.

\* a radius query that leaves out the rows at distance exactly eps
WithinEps_strict(dist, n) ==
  {x \in SUBSET (1..n) : Cardinality(x) = 2 /\ dist[x] < eps}

\* the relation "cosine distance <= eps" of a matrix of pairwise distances
\* (in tenths) over n rows
WithinEps(dist, n) ==
  {x \in SUBSET (1..n) : Cardinality(x) = 2 /\ dist[x] <= eps}

\* radius neighbourhood of row p; it contains p itself (distance 0)
Neighbors(near, n, p) == {q \in 1..n : q = p \/ {p, q} \in near}

\* a core sample counted without the row itself
IsCore_strict(near, n, p, ms) == Cardinality(Neighbors(near, n, p)) > ms

\* core sample: at least min_samples rows, itself included, within eps
IsCore(near, n, p, ms) == Cardinality(Neighbors(near, n, p)) >= ms

\* an expansion that stops at the direct neighbours of the seed rows
Reach_direct(near, n, S, ms) ==
  S \cup UNION {Neighbors(near, n, p) : p \in {q \in S : IsCore(near, n, q, ms)}}

RECURSIVE Reach(_, _, _, _)
\* the rows the depth-first expansion visits from the rows S: neighbours are
\* pushed only from core samples
Reach(near, n, S, ms) ==
  LET T == S \cup UNION {Neighbors(near, n, p) :
                           p \in {q \in S : IsCore(near, n, q, ms)}}
  IN  IF T = S THEN S ELSE Reach(near, n, T, ms)

RECURSIVE dbscan_inner(_, _, _, _, _, _)
\* rows are visited in index order; an unlabelled core sample starts the
\* next label, and a row reached by the expansion takes the label only if
\* it is still unlabelled (-1)
dbscan_inner(near, n, i, label_num, labels, ms) ==
  IF i > n THEN labels
  ELSE IF labels[i] # -1 \/ ~IsCore(near, n, i, ms)
       THEN dbscan_inner(near, n, i + 1, label_num, labels, ms)
       ELSE LET C == Reach(near, n, {i}, ms)
            IN  dbscan_inner(near, n, i + 1, label_num + 1,
                  [p \in 1..n |-> IF p \in C /\ labels[p] = -1
                                  THEN label_num ELSE labels[p]], ms)

\* cluster numbering that starts at 1
cluster_from_one(near, n, ms) ==
  IF n = 0 THEN << >>
  ELSE dbscan_inner(near, n, 1, 1, [p \in 1..n |-> -1], ms)

\* DeduplicationService.cluster
cluster(near, n, ms) ==
  IF n = 0 THEN << >>
  ELSE dbscan_inner(near, n, 1, 0, [p \in 1..n |-> -1], ms)

\* ============================================== TfidfClusteringService
\* similarity_threshold = 0.7, in tenths
similarity_threshold == 7

\* cosine_similarity of two rows, in tenths, from their cosine distance
Similarity(dist, i, j) == IF i = j THEN 10 ELSE 10 - dist[{i, j}]

\* the inner loop absorbing also the rows similar to an absorbed row
Absorbed_chain(dist, n, i, visited) ==
  {j \in (i + 1)..n :
     /\ j \notin visited
     /\ \/ Similarity(dist, i, j) >= similarity_threshold
        \/ \E k \in (i + 1)..n :
             /\ k \notin visited
             /\ Similarity(dist, i, k) >= similarity_threshold
             /\ Similarity(dist, k, j) >= similarity_threshold}

\* the inner loop of _group_by_similarity for seed i: the unvisited later
\* rows whose similarity to row i reaches the threshold
Absorbed(dist, n, i, visited) ==
  {j \in (i + 1)..n :
     j \notin visited /\ Similarity(dist, i, j) >= similarity_threshold}

RECURSIVE group_loop(_, _, _, _, _)
\* the outer loop of _group_by_similarity from row i on; clusters is the
\* dictionary so far, its keys 0, 1, ... being the positions in the sequence
group_loop(dist, n, i, visited, clusters) ==
  IF i > n THEN clusters
  ELSE IF i \in visited
       THEN group_loop(dist, n, i + 1, visited, clusters)
       ELSE LET members == {i} \cup Absorbed(dist, n, i, visited \cup {i})
            IN  IF Cardinality(members) >= 2
                THEN group_loop(dist, n, i + 1, visited \cup members,
                                Append(clusters, SetToSeq(members)))
                ELSE group_loop(dist, n, i + 1, visited \cup members,
                                clusters)

\* TfidfClusteringService._group_by_similarity
_group_by_similarity(dist, n) == group_loop(dist, n, 1, {}, << >>)

\* ============================================== RepresentativeSelector
\* An article dictionary is [id, title, description, source]; title and
\* description stand for the two strings by their numbers of characters,
\* the only thing the selector reads of them.

\* RepresentativeSelector.__init__: weights in thousandths; they are divided
\* by their sum when the sum is positive and kept as given otherwise
RepresentativeSelector(iw, sw, ts) ==
  LET total == iw + sw
  IN  IF total > 0
      THEN [ information_weight |-> (iw * 1000) \div total,
             source_reliability_weight |-> (sw * 1000) \div total,
             trusted_sources |-> ts ]
      ELSE [ information_weight |-> iw,
             source_reliability_weight |-> sw,
             trusted_sources |-> ts ]

\* without the plateau
_calculate_information_score_uncapped(article) ==
  ((article.title + article.description) * 1000) \div max_useful_length

\* min(total_len / 500.0, 1.0), in thousandths
_calculate_information_score(article) ==
  Min(((article.title + article.description) * 1000) \div max_useful_length,
      1000)

_calculate_reliability_score(self, article) ==
  IF article.source \in self.trusted_sources
  THEN trusted_score ELSE unknown_score

\* the information score alone
_score_article_info_only(self, article) ==
  self.information_weight * _calculate_information_score(article)

\* information_weight * info + source_reliability_weight * reliability,
\* in millionths
_score_article(self, article) ==
  self.information_weight * _calculate_information_score(article)
    + self.source_reliability_weight
        * _calculate_reliability_score(self, article)

RECURSIVE InsertDesc_unstable(_, _)
\* x goes in front of the elements whose score equals its own
InsertDesc_unstable(sorted, x) ==
  IF sorted = << >> THEN << x >>
  ELSE IF Head(sorted)[1] > x[1]
       THEN << Head(sorted) >> \o InsertDesc_unstable(Tail(sorted), x)
       ELSE << x >> \o sorted

RECURSIVE InsertDesc(_, _)
\* stable insertion for list.sort(key=lambda x: x[0], reverse=True) on
\* (score, article) pairs: x goes behind every pair whose score is >= its own
InsertDesc(sorted, x) ==
  IF sorted = << >> THEN << x >>
  ELSE IF Head(sorted)[1] >= x[1]
       THEN << Head(sorted) >> \o InsertDesc(Tail(sorted), x)
       ELSE << x >> \o sorted

RECURSIVE SortDesc(_)
SortDesc(scored) ==
  IF scored = << >> THEN << >>
  ELSE InsertDesc(SortDesc(SubSeq(scored, 1, Len(scored) - 1)),
                  scored[Len(scored)])

\* the scoring loop of select: the list of (score, article) pairs
scored_articles(self, arts) ==
  [k \in 1..Len(arts) |-> << _score_article(self, arts[k]), arts[k] >>]

\* select that scores a lone candidate too
select_always_scores(self, arts) ==
  IF arts = << >> THEN [ representative |-> NULL, scored_articles |-> << >> ]
  ELSE [ representative |-> Some(SortDesc(scored_articles(self, arts))[1][2]),
         scored_articles |-> SortDesc(scored_articles(self, arts)) ]

\* RepresentativeSelector.select: the value returned (NULL stands for None)
\* and the list scored_articles as the call leaves it
select(self, arts) ==
  IF arts = << >> THEN [ representative |-> NULL, scored_articles |-> << >> ]
  ELSE IF Len(arts) = 1
  THEN [ representative |-> Some(arts[1]), scored_articles |-> << >> ]
  ELSE [ representative |-> Some(SortDesc(scored_articles(self, arts))[1][2]),
         scored_articles |-> SortDesc(scored_articles(self, arts)) ]

\* the `clusters` dictionary of select_from_clusters: the member lists, in
\* input order, of the labels other than -1
ClusterMembers(arts, cids, c) ==
  LET idx == {k \in 1..Len(arts) : cids[k] = c}
      order == SetToSeq(idx)
  IN  [k \in 1..Len(order) |-> arts[order[k]]]

\* select_from_clusters that keeps the label -1 as a key
select_from_clusters_with_outliers(self, arts, cids) ==
  LET keys == {cids[k] : k \in 1..Len(cids)}
      withRep == {c \in keys :
                    select(self, ClusterMembers(arts, cids, c)).representative
                      # NULL}
  IN  [ representatives |->
          [c \in withRep |->
             select(self, ClusterMembers(arts, cids, c)).representative[1]],
        scored |->
          [c \in keys |->
             select(self, ClusterMembers(arts, cids, c)).scored_articles] ]

\* RepresentativeSelector.select_from_clusters: the dictionary returned, and
\* per cluster the pairs scored by its call of select
select_from_clusters(self, arts, cids) ==
  LET keys == {cids[k] : k \in 1..Len(cids)} \ {-1}
      withRep == {c \in keys :
                    select(self, ClusterMembers(arts, cids, c)).representative
                      # NULL}
  IN  [ representatives |->
          [c \in withRep |->
             select(self, ClusterMembers(arts, cids, c)).representative[1]],
        scored |->
          [c \in keys |->
             select(self, ClusterMembers(arts, cids, c)).scored_articles] ]

\* ============================================== ClassificationService
IsValidCategory(cat) == cat \in ValidCategorySet

\* A JSON object of the external model: each key present (<<v>>) or not.
JsonObject(cats, tgs, conf) ==
  [ type |-> "object", categories |-> cats, tags |-> tgs, confidence |-> conf ]

\* A JSON value that is not an object (an array)
JsonArray ==
  [ type |-> "array", categories |-> NULL, tags |-> NULL, confidence |-> NULL ]

\* What client.messages.create does for one call: it raises ("error",
\* "timeout") or returns a text, which is bare JSON ("json"), JSON inside a
\* markdown fence ("fenced") or holds no JSON at all ("prose").
ApiResponse(kind, form, payload) ==
  [ kind |-> kind, form |-> form, payload |-> payload ]

Responses ==
  { ApiResponse("error", "none", JsonArray),
    ApiResponse("timeout", "none", JsonArray),
    ApiResponse("text", "prose", JsonArray),
    ApiResponse("text", "json", JsonArray),
    ApiResponse("text", "json",
      JsonObject(Some(<< "Policy/Regulation", "Finance/Investment" >>),
                 Some(<< "PF" >>), Some(95))),
    ApiResponse("text", "fenced",
      JsonObject(Some(<< "Gossip", "Market Trends" >>),
                 Some(<< "rate" >>), Some(80))),
    ApiResponse("text", "json",
      JsonObject(Some(<< "Gossip" >>), Some(<< "star" >>), Some(90))),
    ApiResponse("text", "fenced", JsonObject(Some(<< >>), NULL, Some(20))),
    ApiResponse("text", "json",
      JsonObject(Some(<< "Legal/Litigation" >>), Some(<< "suit" >>),
                 Some(150))),
    ApiResponse("text", "json",
      JsonObject(Some(<< "Gossip" >>), Some(<< >>), Some(-5))),
    ApiResponse("text", "json", JsonObject(NULL, NULL, NULL)) }

\* ClassificationService._parse_response: the parsed value, or a raised
\* JSONDecodeError / ValueError (ok = FALSE)
_parse_response(response) ==
  IF response.form \in {"json", "fenced"}
  THEN [ ok |-> TRUE, value |-> response.payload ]
  ELSE [ ok |-> FALSE, value |-> JsonArray ]

\* the dictionary of the `except Exception` branch of classify
Fallback ==
  [ categories |-> << "Others" >>, tags |-> Some(<< >>),
    confidence |-> Some(0), error |-> TRUE ]

\* dict.get(key, default) on an optional key
Get(opt, default) == IF opt = NULL THEN default ELSE opt[1]

\* the success path of classify on a parsed JSON object
Validated(result) ==
  LET cats == SelectSeq(Get(result.categories, << >>), IsValidCategory)
  IN  IF cats # << >>
      THEN [ categories |-> cats, tags |-> result.tags,
             confidence |-> result.confidence, error |-> FALSE ]
      ELSE [ categories |-> << "Others" >>, tags |-> result.tags,
             confidence |-> Some(Min(Get(result.confidence, fallback_cap),
                                     fallback_cap)),
             error |-> FALSE ]

\* classify without the validation of categories (lines 151-160 dropped)
classify_unvalidated(response) ==
  IF response.kind # "text" THEN Fallback
  ELSE LET parsed == _parse_response(response)
       IN  IF ~parsed.ok THEN Fallback
           ELSE IF parsed.value.type # "object" THEN Fallback
           ELSE [ categories |-> Get(parsed.value.categories, << >>),
                  tags |-> parsed.value.tags,
                  confidence |-> parsed.value.confidence, error |-> FALSE ]

\* ClassificationService.classify for one answer of the external model
classify(response) ==
  IF response.kind # "text" THEN Fallback             \* the call raised
  ELSE LET parsed == _parse_response(response)
       IN  IF ~parsed.ok THEN Fallback                \* no JSON in the text
           ELSE IF parsed.value.type # "object" THEN Fallback  \* no .get
           ELSE Validated(parsed.value)

\* ============================================== EmbeddingService
\* EmbeddingService.__init__: self.model = None.  `loads` counts the
\* SentenceTransformer objects built for the service and `encodes` the calls
\* of model.encode.
EmbeddingService == [ model |-> NULL, loads |-> 0, encodes |-> 0 ]

\* EmbeddingService._load_model
_load_model(self) ==
  IF self.model = NULL
  THEN [self EXCEPT !.model = Some("SentenceTransformer"), !.loads = @ + 1]
  ELSE self

\* model.encode of one text: its vector
Encode(text) == << "vector", text >>

\* EmbeddingService.embed: the service afterwards and the value returned
embed(self, text) ==
  LET loaded == _load_model(self)
  IN  [ self |-> [loaded EXCEPT !.encodes = @ + 1], result |-> Encode(text) ]

\* EmbeddingService.embed_batch; << >> stands for np.array([])
embed_batch(self, texts) ==
  LET loaded == _load_model(self)
  IN  IF texts = << >>
      THEN [ self |-> loaded, result |-> << >> ]
      ELSE [ self |-> [loaded EXCEPT !.encodes = @ + 1],
             result |-> [k \in 1..Len(texts) |-> Encode(texts[k])] ]

\* EmbeddingService.embed_articles: titles and descriptions are encoded in
\* two calls, combined and normalised row by row
embed_articles(self, arts) ==
  LET loaded == _load_model(self)
  IN  IF arts = << >>
      THEN [ self |-> loaded, result |-> << >> ]
      ELSE [ self |-> [loaded EXCEPT !.encodes = @ + 2],
             result |-> [k \in 1..Len(arts) |->
                           << "normalized", Encode(arts[k].title),
                              Encode(arts[k].description) >>] ]

\* EmbeddingService.close
close(self) ==
  IF self.model # NULL THEN [self EXCEPT !.model = NULL] ELSE self

\* EmbeddingService.__enter__
__enter__(self) == _load_model(self)

\* EmbeddingService.__exit__
__exit__(self) == close(self)

\* ============================================== LocalSink
\* the SinkResult a write call starts from
SinkResult0 == [ created |-> 0, updated |-> 0, duplicates |-> 0, failed |-> 0 ]

\* getattr(items[0], 'source', 'unknown')
SourceOf(item) == IF item.source = NULL THEN "unknown" ELSE item.source[1]

\* f"{source}_{timestamp}.{self.format}" under the output directory
Filepath(source, timestamp, format) == << source, timestamp, format >>

\* the ways a file write can go: it succeeds, model_dump raises before the
\* file is opened, open raises, or the dump raises after the file was opened
Faults == {"none", "model_dump", "open", "dump"}

\* the directory after _write_json / _write_csv ran on filepath with the
\* given fault: `open(filepath, 'w')` creates or truncates the file
WriteFile(files, filepath, items, fault) ==
  IF fault \in {"model_dump", "open"} THEN files
  ELSE [f \in DOMAIN files \cup {filepath} |->
          IF f = filepath
          THEN IF fault = "none" THEN items ELSE << >>
          ELSE files[f]]

\* write without the `if not items: return result`
write_empty_file(self, files, items, now, fault) ==
  IF self.format \in {"json", "csv"}
  THEN LET filepath == Filepath(IF items = << >> THEN "unknown"
                                ELSE SourceOf(items[1]), now, self.format)
       IN  [ result |-> IF fault = "none"
                        THEN [SinkResult0 EXCEPT !.created = Len(items)]
                        ELSE [SinkResult0 EXCEPT !.failed = Len(items)],
             files |-> WriteFile(files, filepath, items, fault),
             opened |-> IF fault \in {"none", "dump"}
                        THEN << filepath >> ELSE << >>,
             raised |-> FALSE ]
  ELSE [ result |-> [SinkResult0 EXCEPT !.failed = Len(items)],
         files |-> files, opened |-> << >>, raised |-> FALSE ]

\* LocalSink.write: the SinkResult returned, the directory afterwards, the
\* files opened for writing, and whether the call raised
write(self, files, items, now, fault) ==
  IF items = << >>
  THEN [ result |-> SinkResult0, files |-> files, opened |-> << >>,
         raised |-> FALSE ]
  ELSE IF self.format \in {"json", "csv"}
  THEN LET filepath == Filepath(SourceOf(items[1]), now, self.format)
       IN  [ result |-> IF fault = "none"
                        THEN [SinkResult0 EXCEPT !.created = Len(items)]
                        ELSE [SinkResult0 EXCEPT !.failed = Len(items)],
             files |-> WriteFile(files, filepath, items, fault),
             opened |-> IF fault \in {"none", "dump"}
                        THEN << filepath >> ELSE << >>,
             raised |-> FALSE ]
  ELSE [ result |-> [SinkResult0 EXCEPT !.failed = Len(items)],
         files |-> files, opened |-> << >>, raised |-> FALSE ]

\* ============================================== DBSink
\* An item is [url]: NULL when it has neither url nor detail_url.  The
\* committed database is [staging, domain]: the item_url column of
\* staging_raw_items in insertion order, and for the domain table the number
\* of committed writes of each url it holds.

\* DBSink._dedup_batch: the first item of every url; items without a key are
\* dropped
_dedup_batch(items) ==
  LET keep == {k \in 1..Len(items) :
                 /\ items[k].url # NULL
                 /\ \A j \in 1..(k - 1) : items[j].url # items[k].url}
      order == SetToSeq(keep)
  IN  [k \in 1..Len(order) |-> items[order[k]]]

\* A fault is 0 (none) or the position k of the item at which the database
\* raises; Len(items) + 1 stands for the commit.

\* DBSink._write_to_staging
_write_to_staging(db, items, result, fault) ==
  IF fault = 0
  THEN [ db |-> [db EXCEPT !.staging =
                   @ \o [k \in 1..Len(items) |-> items[k].url[1]]],
         result |-> [result EXCEPT !.created = Len(items)] ]
  ELSE [ db |-> db, result |-> [result EXCEPT !.failed = Len(items)] ]

\* the domain table after the writes of items[1..upto] are committed
Merged(domain, items, upto) ==
  LET urls == {items[k].url[1] : k \in 1..upto}
  IN  [u \in DOMAIN domain \cup urls |->
         IF u \in urls
         THEN (IF u \in DOMAIN domain THEN domain[u] ELSE 0) + 1
         ELSE domain[u]]

\* DBSink._upsert_postgresql: one INSERT ... ON CONFLICT DO UPDATE and a
\* commit; the counts are assigned after the commit
_upsert_postgresql(db, items, result, fault) ==
  IF fault = 0
  THEN [ db |-> [db EXCEPT !.domain = Merged(@, items, Len(items))],
         result |-> [result EXCEPT !.created = Len(items)],
         raised |-> FALSE ]
  ELSE [ db |-> db, result |-> result, raised |-> TRUE ]

\* the counts after the loop of _upsert_sqlite has handled items[1..upto]
Counted(domain, items, result, upto) ==
  [result EXCEPT
     !.updated = @ + Cardinality({k \in 1..upto :
                                    items[k].url[1] \in DOMAIN domain}),
     !.created = @ + Cardinality({k \in 1..upto :
                                    items[k].url[1] \notin DOMAIN domain})]

\* DBSink._upsert_sqlite: the loop increments the counts of the result
\* dictionary it was given, item by item, and commits at the end; when the
\* database raises the increments made so far stay in the dictionary
_upsert_sqlite(db, items, result, fault) ==
  IF fault = 0
  THEN [ db |-> [db EXCEPT !.domain = Merged(@, items, Len(items))],
         result |-> Counted(db.domain, items, result, Len(items)),
         raised |-> FALSE ]
  ELSE [ db |-> db,
         result |-> Counted(db.domain, items, result, fault - 1),
         raised |-> TRUE ]

\* DBSink._write_to_domain: without a model class everything fails; an
\* exception of the upsert is answered by rollback and failed = len(items)
_write_to_domain(self, db, items, result, fault) ==
  IF ~self.model_class
  THEN [ db |-> db, result |-> [result EXCEPT !.failed = Len(items)] ]
  ELSE LET r == IF self.dialect = "postgresql"
                THEN _upsert_postgresql(db, items, result, fault)
                ELSE _upsert_sqlite(db, items, result, fault)
       IN  IF r.raised
           THEN [ db |-> db,
                  result |-> [r.result EXCEPT !.failed = Len(items)] ]
           ELSE [ db |-> r.db, result |-> r.result ]

\* DBSink.write: the database afterwards and the SinkResult returned
sink_write(self, db, items, fault) ==
  IF items = << >> THEN [ db |-> db, result |-> SinkResult0 ]
  ELSE LET unique_items == _dedup_batch(items)
           result == [SinkResult0 EXCEPT
                        !.duplicates = Len(items) - Len(unique_items)]
       IN  IF self.target_table = "staging"
           THEN _write_to_staging(db, unique_items, result, fault)
           ELSE _write_to_domain(self, db, unique_items, result, fault)

\* ============================================== DataProcessor
\* DataProcessor.__init__: the selector built from the configuration
representative_selector ==
  RepresentativeSelector(information_weight, source_reliability_weight,
                         trusted_sources)

\* _select_representatives: the dictionaries handed to the selector
article_dicts(arts) ==
  [k \in 1..Len(arts) |->
     [ id |-> arts[k], title |-> TitleLen(arts[k]),
       description |-> DescriptionLen(arts[k]), source |-> Source(arts[k]) ]]

Stats0 ==
  [ fetched |-> 0, embedded |-> 0, deduplicated |-> 0,
    representatives_selected |-> 0, classified |-> 0, processed |-> 0,
    errors |-> 0 ]

\* _fetch_raw_articles: the rows with status 'raw', at most `limit` of them
\* when limit is truthy (0 stands for None), in primary-key order
_fetch_raw_articles(db, limit) ==
  LET raw == {i \in Items : db[i].status = "raw"}
      k   == IF limit = 0 THEN Cardinality(raw)
             ELSE Min(limit, Cardinality(raw))
  IN  {SetToSeq(S) : S \in {T \in SUBSET raw : Cardinality(T) = k}}

\* every embedding matrix embed_articles can return for n articles: any
\* symmetric "within eps" relation between distinct rows
EmbeddingsOf(n) == SUBSET {x \in SUBSET (1..n) : Cardinality(x) = 2}

\* the answer makes classify take its `except Exception` branch
CallFails(response) ==
  \/ response.kind # "text"
  \/ ~_parse_response(response).ok
  \/ _parse_response(response).value.type # "object"

\* _classify_articles whose loop ends at the first failing call (classify
\* without its try/except)
_classify_articles_abort(reps, resp) ==
  [c \in {d \in DOMAIN reps :
            \A b \in DOMAIN reps : b <= d => ~CallFails(resp[b])}
     |-> classify(resp[c])]

\* _classify_articles: one classify call per representative
_classify_articles(reps, resp) ==
  [c \in DOMAIN reps |-> classify(resp[c])]

\* the loop body that writes the classification of the cluster on every
\* member
UpdatedArticle_classifies_members(article, k, cids, reps, cls) ==
  LET cluster_id == cids[k]
      count == Cardinality({j \in 1..Len(cids) : cids[j] = cluster_id})
      isRep == cluster_id \in DOMAIN reps /\ reps[cluster_id] = article.id
  IN  IF cluster_id # -1
      THEN IF cluster_id \in DOMAIN cls
           THEN [ article EXCEPT
                    !.duplicate_cluster_id = Some(cluster_id),
                    !.duplicate_count = Some(count),
                    !.cluster_representative = Some(isRep),
                    !.classified_categories =
                        Some(cls[cluster_id].categories),
                    !.tags = Some(Get(cls[cluster_id].tags, << >>)),
                    !.classification_confidence =
                        Some(Get(cls[cluster_id].confidence, 0)),
                    !.status = "processed" ]
           ELSE [ article EXCEPT
                    !.duplicate_cluster_id = Some(cluster_id),
                    !.duplicate_count = Some(count),
                    !.cluster_representative = Some(isRep),
                    !.status = "processed" ]
      ELSE [ article EXCEPT
               !.duplicate_cluster_id = NULL,
               !.duplicate_count = Some(1),
               !.cluster_representative = Some(TRUE),
               !.status = "processed" ]

\* the body of the loop of _update_database for articles[k]
UpdatedArticle(article, k, cids, reps, cls) ==
  LET cluster_id == cids[k]
      count == Cardinality({j \in 1..Len(cids) : cids[j] = cluster_id})
      isRep == cluster_id \in DOMAIN reps /\ reps[cluster_id] = article.id
  IN  IF cluster_id # -1
      THEN IF isRep
           THEN IF cluster_id \in DOMAIN cls
                THEN [ article EXCEPT
                         !.duplicate_cluster_id = Some(cluster_id),
                         !.duplicate_count = Some(count),
                         !.cluster_representative = Some(TRUE),
                         !.classified_categories =
                             Some(cls[cluster_id].categories),
                         !.tags = Some(Get(cls[cluster_id].tags, << >>)),
                         !.classification_confidence =
                             Some(Get(cls[cluster_id].confidence, 0)),
                         !.status = "processed" ]
                ELSE [ article EXCEPT
                         !.duplicate_cluster_id = Some(cluster_id),
                         !.duplicate_count = Some(count),
                         !.cluster_representative = Some(TRUE),
                         !.status = "processed" ]
           ELSE [ article EXCEPT
                    !.duplicate_cluster_id = Some(cluster_id),
                    !.duplicate_count = Some(count),
                    !.cluster_representative = Some(FALSE),
                    !.status = "processed" ]
      ELSE [ article EXCEPT
               !.duplicate_cluster_id = NULL,
               !.duplicate_count = Some(1),
               !.cluster_representative = Some(TRUE),
               !.status = "processed" ]

\* the article objects after the loop has handled articles[1..upto]
LoopUpdate(objects, arts, upto, cids, reps, cls) ==
  [i \in DOMAIN objects |->
     IF \E k \in 1..upto : arts[k] = i
     THEN UpdatedArticle(objects[i], CHOOSE k \in 1..upto : arts[k] = i,
                         cids, reps, cls)
     ELSE objects[i]]

\* self.Session() in _update_database: a new session.  The articles were
\* loaded by the session of _fetch_raw_articles, which that method closed,
\* and are never added to or merged into the new one: no object is attached
\* to it.
Session == {}

\* session.commit(): the pending changes of the objects attached to the
\* session are written to the table
commit(db, session, objects) ==
  [i \in Items |-> IF i \in session THEN objects[i] ELSE db[i]]

\* an `except` handler that only logs
except_handler_silent(st) == st

\* run(): the `except Exception` handler
except_handler(st) == [st EXCEPT !.errors = @ + 1]

\* run() with a `raise` at the end of its handler
run_result_reraise(st, e) ==
  IF e = "none" THEN [ kind |-> "return", stats |-> st, exc |-> "none" ]
  ELSE [ kind |-> "raise", stats |-> Stats0, exc |-> e ]

\* run(): what the caller receives -- `return stats` on every path
run_result(st, e) == [ kind |-> "return", stats |-> st, exc |-> "none" ]

\* ================================================================ actions
\* no DeduplicationService is in use outside the pipeline
DbsIdle ==
  [ pc |-> "idle", n |-> 0, dist |-> << >>, min_samples |-> min_samples,
    labels |-> << >>, groups |-> << >> ]

\* no RepresentativeSelector is in use outside the pipeline
SelIdle ==
  [ pc |-> "idle", args |-> << information_weight, source_reliability_weight >>,
    self |-> NULL, articles |-> << >>, cluster_ids |-> << >>,
    out |-> NULL ]

\* no EmbeddingService is in use outside the pipeline
EmbIdle ==
  [ pc |-> "idle", self |-> EmbeddingService, calls |-> 0,
    used |-> FALSE, closed |-> FALSE,
    last |-> [ op |-> "none", n |-> 0, model_before |-> NULL,
               result |-> << >> ] ]

\* no LocalSink is in use
LSinkIdle ==
  [ pc |-> "idle", self |-> [ format |-> "json" ], files |-> << >>,
    now |-> 0, calls |-> 0,
    last |-> [ items |-> << >>, fault |-> "none", result |-> SinkResult0,
               opened |-> << >>, raised |-> FALSE, files_before |-> << >> ] ]

\* no DBSink is in use
DBSinkIdle ==
  [ pc |-> "idle",
    self |-> [ target_table |-> "staging", model_class |-> FALSE,
               dialect |-> "sqlite" ],
    db |-> [ staging |-> << >>, domain |-> << >> ],
    calls |-> 0,
    last |-> [ items |-> << >>, fault |-> 0, result |-> SinkResult0,
               db_before |-> [ staging |-> << >>, domain |-> << >> ] ] ]

\* the callers of run(): two processes that share the table
Procs == {1, 2}

\* the locals of a run() call that has not started
Locals0 ==
  [ pc |-> "idle", articles |-> << >>, objs |-> << >>, cluster_ids |-> << >>,
    representatives |-> << >>, classifications |-> << >>,
    overlapped |-> FALSE ]

\* no concurrent runs are in flight
ConcIdle ==
  [ store |-> << >>, run |-> [r \in Procs |-> Locals0], last_commit |-> 0 ]

\* the services used on their own
standalone == << dbs, sel, emb, lsink, dbsink, conc >>

\* the services other than the one held in dbs
allButDbs == << sel, emb, lsink, dbsink, conc >>
IdleButDbs == sel = SelIdle /\ emb = EmbIdle /\ lsink = LSinkIdle /\ dbsink = DBSinkIdle /\ conc = ConcIdle

\* the services other than the one held in sel
allButSel == << dbs, emb, lsink, dbsink, conc >>
IdleButSel == dbs = DbsIdle /\ emb = EmbIdle /\ lsink = LSinkIdle /\ dbsink = DBSinkIdle /\ conc = ConcIdle

\* the services other than the one held in emb
allButEmb == << dbs, sel, lsink, dbsink, conc >>
IdleButEmb == dbs = DbsIdle /\ sel = SelIdle /\ lsink = LSinkIdle /\ dbsink = DBSinkIdle /\ conc = ConcIdle

\* the services other than the one held in lsink
allButLsink == << dbs, sel, emb, dbsink, conc >>
IdleButLsink == dbs = DbsIdle /\ sel = SelIdle /\ emb = EmbIdle /\ dbsink = DBSinkIdle /\ conc = ConcIdle

\* the services other than the one held in dbsink
allButDbsink == << dbs, sel, emb, lsink, conc >>
IdleButDbsink == dbs = DbsIdle /\ sel = SelIdle /\ emb = EmbIdle /\ lsink = LSinkIdle /\ conc = ConcIdle

\* the services other than the one held in conc
allButConc == << dbs, sel, emb, lsink, dbsink >>
IdleButConc == dbs = DbsIdle /\ sel = SelIdle /\ emb = EmbIdle /\ lsink = LSinkIdle /\ dbsink = DBSinkIdle

\* cosine distances of the sample matrices, in tenths: at the threshold
\* eps and far beyond it
Distances == {3, 9}

Init ==
  /\ store \in {[i \in Items |-> RawRow(i, st[i])] :
                  st \in [Items -> {"raw", "processed"}]}
  /\ runs = 0
  /\ pc = "idle"
  /\ articles = << >>
  /\ objs = << >>
  /\ embeddings = {}
  /\ cluster_ids = << >>
  /\ representatives = << >>
  /\ responses = << >>
  /\ classifications = << >>
  /\ stats = Stats0
  /\ exc = "none"
  /\ log = << >>
  /\ returned = [ kind |-> "none", stats |-> Stats0, exc |-> "none" ]
  /\ reported = {}
  /\ store_before = store
  /\ dbs = DbsIdle
  /\ sel = SelIdle
  /\ emb = EmbIdle
  /\ lsink = LSinkIdle
  /\ dbsink = DBSinkIdle
  /\ conc = ConcIdle

\* run(), the `except` branch for an exception e raised by a stage, followed
\* by `return stats`
Abort(e) ==
  /\ exc' = e
  /\ log' = Append(log, e)
  /\ stats' = except_handler(stats)
  /\ returned' = run_result(except_handler(stats), e)
  /\ pc' = "done"

\* Step 1 without the `if not articles: return stats` of run()
Fetch_no_early_return ==
  /\ UNCHANGED standalone
  /\ pc = "idle"
  /\ runs < MaxRuns
  /\ \E limit \in 0..MaxLimit :
       \E arts \in _fetch_raw_articles(store, limit) :
         /\ articles' = arts
         /\ objs' = [i \in Range(arts) |-> store[i]]
         /\ stats' = [stats EXCEPT !.fetched = Len(arts)]
         /\ pc' = "fetched"
         /\ UNCHANGED returned
  /\ store_before' = store
  /\ UNCHANGED << store, runs, embeddings, cluster_ids, representatives,
                  responses, classifications, exc, log, reported >>

\* run() is called and Step 1 returns the batch (the session of the query is
\* closed, which detaches the returned objects)
Fetch ==
  /\ UNCHANGED standalone
  /\ pc = "idle"
  /\ runs < MaxRuns
  /\ \E limit \in 0..MaxLimit :
       \E arts \in _fetch_raw_articles(store, limit) :
         /\ articles' = arts
         /\ objs' = [i \in Range(arts) |-> store[i]]
         /\ stats' = [stats EXCEPT !.fetched = Len(arts)]
         /\ IF arts = << >>
            THEN /\ pc' = "done"
                 /\ returned' =
                      run_result([stats EXCEPT !.fetched = Len(arts)], "none")
            ELSE /\ pc' = "fetched"
                 /\ UNCHANGED returned
  /\ store_before' = store
  /\ UNCHANGED << store, runs, embeddings, cluster_ids, representatives,
                  responses, classifications, exc, log, reported >>

\* Step 1 raises (the store is unreachable)
FetchFails ==
  /\ UNCHANGED standalone
  /\ pc = "idle"
  /\ runs < MaxRuns
  /\ Abort("fetch")
  /\ store_before' = store
  /\ UNCHANGED << store, runs, articles, objs, embeddings, cluster_ids,
                  representatives, responses, classifications, reported >>

\* Step 2: _generate_embeddings
Embed ==
  /\ UNCHANGED standalone
  /\ pc = "fetched"
  /\ \E m \in EmbeddingsOf(Len(articles)) :
       /\ embeddings' = m
       /\ stats' = [stats EXCEPT !.embedded = Len(articles)]
  /\ pc' = "embedded"
  /\ UNCHANGED << store, runs, articles, objs, cluster_ids, representatives,
                  responses, classifications, exc, log, returned, reported,
                  store_before >>

EmbedFails ==
  /\ UNCHANGED standalone
  /\ pc = "fetched"
  /\ Abort("embed")
  /\ UNCHANGED << store, runs, articles, objs, embeddings, cluster_ids,
                  representatives, responses, classifications, reported,
                  store_before >>

\* Step 3: _deduplicate
Cluster ==
  /\ UNCHANGED standalone
  /\ pc = "embedded"
  /\ LET ids == cluster(embeddings, Len(articles), min_samples)
     IN  /\ cluster_ids' = ids
         /\ stats' = [stats EXCEPT !.deduplicated =
                        Cardinality({k \in 1..Len(ids) : ids[k] # -1})]
  /\ pc' = "clustered"
  /\ UNCHANGED << store, runs, articles, objs, embeddings, representatives,
                  responses, classifications, exc, log, returned, reported,
                  store_before >>

ClusterFails ==
  /\ UNCHANGED standalone
  /\ pc = "embedded"
  /\ Abort("cluster")
  /\ UNCHANGED << store, runs, articles, objs, embeddings, cluster_ids,
                  representatives, responses, classifications, reported,
                  store_before >>

\* Step 4: _select_representatives
SelectRepresentatives ==
  /\ UNCHANGED standalone
  /\ pc = "clustered"
  /\ LET rep_dicts == select_from_clusters(representative_selector,
                                           article_dicts(articles),
                                           cluster_ids).representatives
         reps == [c \in DOMAIN rep_dicts |-> rep_dicts[c].id]
     IN  /\ representatives' = reps
         /\ stats' = [stats EXCEPT !.representatives_selected =
                        Cardinality(DOMAIN reps)]
  /\ pc' = "selected"
  /\ UNCHANGED << store, runs, articles, objs, embeddings, cluster_ids,
                  responses, classifications, exc, log, returned, reported,
                  store_before >>

SelectFails ==
  /\ UNCHANGED standalone
  /\ pc = "clustered"
  /\ Abort("select")
  /\ UNCHANGED << store, runs, articles, objs, embeddings, cluster_ids,
                  representatives, responses, classifications, reported,
                  store_before >>

\* Step 5: _classify_articles; the external model answers each call in any
\* of the ways of Responses
Classify ==
  /\ UNCHANGED standalone
  /\ pc = "selected"
  /\ \E resp \in [DOMAIN representatives -> Responses] :
       /\ responses' = resp
       /\ classifications' = _classify_articles(representatives, resp)
       /\ stats' = [stats EXCEPT !.classified =
                      Cardinality(DOMAIN _classify_articles(representatives,
                                                            resp))]
  /\ pc' = "classified"
  /\ UNCHANGED << store, runs, articles, objs, embeddings, cluster_ids,
                  representatives, exc, log, returned, reported,
                  store_before >>

\* Step 6: _update_database runs its loop over all articles and commits
\* through a new session
UpdateDatabase ==
  /\ UNCHANGED standalone
  /\ pc = "classified"
  /\ LET session == Session
         updated == LoopUpdate(objs, articles, Len(articles), cluster_ids,
                               representatives, classifications)
     IN  /\ objs' = updated
         /\ store' = commit(store, session, updated)
         /\ stats' = [stats EXCEPT !.processed = Len(articles)]
         /\ returned' =
              run_result([stats EXCEPT !.processed = Len(articles)], "none")
         /\ reported' = reported \cup Range(articles)
  /\ pc' = "done"
  /\ UNCHANGED << runs, articles, embeddings, cluster_ids, representatives,
                  responses, classifications, exc, log, store_before >>

\* Step 6 raises while handling articles[k] or in the commit (k =
\* Len(articles) + 1): rollback, and the exception reaches run()
UpdateFails ==
  /\ UNCHANGED standalone
  /\ pc = "classified"
  /\ \E k \in 1..(Len(articles) + 1) :
       objs' = LoopUpdate(objs, articles, k - 1, cluster_ids,
                          representatives, classifications)
  /\ Abort("persist")
  /\ UNCHANGED << store, runs, articles, embeddings, cluster_ids,
                  representatives, responses, classifications, reported,
                  store_before >>

\* run() has returned; the next call starts with fresh locals
NextRun ==
  /\ UNCHANGED standalone
  /\ pc = "done"
  /\ runs' = runs + 1
  /\ pc' = "idle"
  /\ articles' = << >>
  /\ objs' = << >>
  /\ embeddings' = {}
  /\ cluster_ids' = << >>
  /\ representatives' = << >>
  /\ responses' = << >>
  /\ classifications' = << >>
  /\ stats' = Stats0
  /\ exc' = "none"
  /\ log' = << >>
  /\ returned' = [ kind |-> "none", stats |-> Stats0, exc |-> "none" ]
  /\ UNCHANGED << store, reported, store_before >>

Next ==
  \/ Fetch
  \/ FetchFails
  \/ Embed
  \/ EmbedFails
  \/ Cluster
  \/ ClusterFails
  \/ SelectRepresentatives
  \/ SelectFails
  \/ Classify
  \/ UpdateDatabase
  \/ UpdateFails
  \/ NextRun

Spec == Init /\ [][Next]_vars

\* ================================================================= claims
\* the current run has gone through Persist without an exception
PersistCompleted == pc = "done" /\ exc = "none" /\ articles # << >>

\* the non-negative cluster ids of the run and the members of one
ClusterIdsOfRun == Range(cluster_ids) \ {-1}
MembersOf(c) == {articles[k] : k \in {j \in 1..Len(articles) :
                                         cluster_ids[j] = c}}

\* C1: after a run that completes Persist, every cluster id c >= 0 of the
\* run has exactly one member stored with cluster_representative = true and
\* all its other members stored with cluster_representative = false.
C1_OneRepresentativePersisted ==
  PersistCompleted =>
    \A c \in ClusterIdsOfRun :
      \E r \in MembersOf(c) :
        /\ store[r].cluster_representative = Some(TRUE)
        /\ \A m \in MembersOf(c) \ {r} :
             store[m].cluster_representative = Some(FALSE)

\* C2: after a run that completes Persist, every item assigned to a cluster
\* id c >= 0 is stored with duplicate_count equal to the number of items of
\* the batch assigned to c and with duplicate_cluster_id = c.
C2_ClusterSizePersisted ==
  PersistCompleted =>
    \A k \in 1..Len(articles) :
      cluster_ids[k] # -1 =>
        /\ store[articles[k]].duplicate_cluster_id = Some(cluster_ids[k])
        /\ store[articles[k]].duplicate_count =
             Some(Cardinality(MembersOf(cluster_ids[k])))

\* C3: after a run that completes Persist, every item whose cluster
\* assignment is -1 is stored with cluster id NULL, cluster size 1 and
\* cluster_representative = true.
C3_OutlierPersisted ==
  PersistCompleted =>
    \A k \in 1..Len(articles) :
      cluster_ids[k] = -1 =>
        /\ store[articles[k]].duplicate_cluster_id = NULL
        /\ store[articles[k]].duplicate_count = Some(1)
        /\ store[articles[k]].cluster_representative = Some(TRUE)

\* C4: after a run that completes Persist, every article the run wrote with
\* cluster_representative = true (the chosen member of each cluster and
\* every outlier) carries categories, tags and confidence written by that
\* run.
C4_RepresentativesClassified ==
  PersistCompleted =>
    \A i \in Range(articles) :
      objs[i].cluster_representative = Some(TRUE) =>
        /\ objs[i].classified_categories # NULL
        /\ objs[i].tags # NULL
        /\ objs[i].classification_confidence # NULL

\* C5: in a run whose Fetch, Embed, Cluster and SelectRepresentatives
\* stages succeed, every fetched item ends with status 'processed' in the
\* store.
C5_AllItemsProcessed ==
  (pc = "done" /\ articles # << >>
     /\ exc \notin {"fetch", "embed", "cluster", "select"}) =>
    \A i \in Range(articles) : store[i].status = "processed"

\* C6: an item that an earlier run reported as processed is never in the
\* batch Fetch returns to a later run.
C6_ProcessedNeverRefetched ==
  pc = "fetched" => Range(articles) \cap reported = {}

\* the run was aborted by an exception of one of the first four stages
AbortedEarly == pc = "done" /\ exc \in {"fetch", "embed", "cluster", "select"}

\* C7: when Fetch, Embed, Cluster or SelectRepresentatives raises, no later
\* stage executes, the store is as it was when run was called, and run
\* returns the statistics with errors = 1, the counters of the stages
\* completed before the failure set and all other counters 0.
C7_AbortIsAllOrNothing ==
  AbortedEarly =>
    /\ returned.kind = "return"
    /\ returned.stats = stats
    /\ stats.errors = 1
    /\ stats.fetched = IF exc = "fetch" THEN 0 ELSE Len(articles)
    /\ stats.embedded =
         IF exc \in {"fetch", "embed"} THEN 0 ELSE Len(articles)
    /\ stats.deduplicated =
         IF exc = "select"
         THEN Cardinality({k \in 1..Len(cluster_ids) : cluster_ids[k] # -1})
         ELSE 0
    /\ stats.representatives_selected = 0
    /\ stats.classified = 0
    /\ stats.processed = 0
    /\ exc = "fetch" => articles = << >>
    /\ exc \in {"fetch", "embed", "cluster"} => cluster_ids = << >>
    /\ representatives = << >>
    /\ responses = << >>
    /\ classifications = << >>
    /\ store = store_before
    /\ \A i \in Range(articles) : objs[i] = store_before[i]

\* C7 witness: a run of at least two articles, two of them clustered,
\* aborted in SelectRepresentatives
C7_Witness ==
  /\ pc = "done"
  /\ exc = "select"
  /\ stats.deduplicated >= 2
  /\ stats.errors = 1

C9_ClassificationIsolated ==
  (pc = "classified" \/ PersistCompleted) =>
    /\ DOMAIN classifications = DOMAIN representatives
    /\ stats.classified = Cardinality(DOMAIN representatives)
    /\ stats.errors = 0
    /\ exc = "none"
    /\ \A c \in DOMAIN representatives :
         LET own == responses[c].payload
             res == classifications[c]
             validOwn == SelectSeq(Get(own.categories, << >>),
                                   IsValidCategory)
         IN  IF CallFails(responses[c])
             THEN /\ res.categories = << "Others" >>
                  /\ res.tags = Some(<< >>)
                  /\ res.confidence = Some(0)
             ELSE /\ res.error = FALSE
                  /\ res.tags = own.tags
                  /\ validOwn # << >> =>
                       /\ res.categories = validOwn
                       /\ res.confidence = own.confidence

\* C9 witness: two representatives, the call of the first failed, the
\* second got categories of its own answer
C9_Witness ==
  /\ pc = "classified"
  /\ \E c1, c2 \in DOMAIN representatives :
       /\ c1 < c2
       /\ CallFails(responses[c1])
       /\ ~CallFails(responses[c2])
       /\ classifications[c1] = Fallback
       /\ classifications[c2].categories =
            << "Policy/Regulation", "Finance/Investment" >>

\* C10: every result of classify has a non-empty category list within
\* VALID_CATEGORIES, and it is exactly the single label "Others" when the
\* answer names no valid category.
C10_CategoriesValid ==
  \A c \in DOMAIN classifications :
    LET cats == classifications[c].categories
        named == IF responses[c].kind = "text"
                 THEN Range(Get(responses[c].payload.categories, << >>))
                 ELSE {}
    IN  /\ cats # << >>
        /\ Range(cats) \subseteq ValidCategorySet
        /\ named \cap ValidCategorySet = {} => cats = << "Others" >>

\* C10 witness: an answer naming one invalid and one valid category was
\* reduced to the valid one
C10_Witness ==
  \E c \in DOMAIN classifications :
    /\ responses[c].kind = "text"
    /\ responses[c].payload.categories = Some(<< "Gossip", "Market Trends" >>)
    /\ classifications[c].categories = << "Market Trends" >>

\* C11: every result of classify, and every confidence a run writes on a
\* representative, carries an integer confidence within 0..100, whatever
\* confidence the answer of the external model holds.
C11_ConfidenceInRange ==
  /\ \A c \in DOMAIN classifications :
       /\ classifications[c].confidence # NULL
       /\ classifications[c].confidence[1] \in 0..100
  /\ \A i \in DOMAIN objs :
       objs[i].classification_confidence # NULL =>
         objs[i].classification_confidence[1] \in 0..100

\* ============================ DeduplicationService.cluster on its own
\* the pipeline is not running
PipelineOff ==
  /\ store = [i \in Items |-> RawRow(i, "raw")]
  /\ runs = 0
  /\ pc = "off"
  /\ articles = << >>
  /\ objs = << >>
  /\ embeddings = {}
  /\ cluster_ids = << >>
  /\ representatives = << >>
  /\ responses = << >>
  /\ classifications = << >>
  /\ stats = Stats0
  /\ exc = "none"
  /\ log = << >>
  /\ returned = [ kind |-> "none", stats |-> Stats0, exc |-> "none" ]
  /\ reported = {}
  /\ store_before = store

pipelineVars ==
  << store, runs, pc, articles, objs, embeddings, cluster_ids,
     representatives, responses, classifications, stats, exc, log,
     returned, reported, store_before >>

\* a service with some min_samples and the distance matrix of 0..MaxPoints
\* embedding rows
InitCluster ==
  /\ PipelineOff
  /\ IdleButDbs
  /\ \E n \in 0..MaxPoints, ms \in 1..MaxMinSamples :
       \E dist \in [{x \in SUBSET (1..n) : Cardinality(x) = 2} -> Distances] :
         dbs = [ pc |-> "input", n |-> n, dist |-> dist, min_samples |-> ms,
                 labels |-> << >>, groups |-> << >> ]

\* cluster(embeddings) is called
ClusterPoints ==
  /\ dbs.pc = "input"
  /\ dbs' = [dbs EXCEPT
               !.labels = cluster(WithinEps(dbs.dist, dbs.n), dbs.n,
                                  dbs.min_samples),
               !.pc = "clustered"]
  /\ UNCHANGED << pipelineVars, allButDbs >>

NextCluster == ClusterPoints

SpecCluster == InitCluster /\ [][NextCluster]_vars

\* rows p and q are within eps of each other, read off the distance matrix
DbsWithin(p, q) == p = q \/ dbs.dist[{p, q}] <= eps

\* row p has at least min_samples rows, itself included, within eps
DbsCore(p) ==
  Cardinality({q \in 1..dbs.n : DbsWithin(p, q)}) >= dbs.min_samples

\* C12: a row is labelled -1 exactly when it is neither core nor within eps
\* of a core row, and a row labelled c >= 0 is core or within eps of a core
\* row labelled c.
C12_DensityReachability ==
  dbs.pc = "clustered" =>
    \A p \in 1..dbs.n :
      /\ dbs.labels[p] = -1 <=>
           (~DbsCore(p) /\ ~\E q \in 1..dbs.n : DbsCore(q) /\ DbsWithin(p, q))
      /\ dbs.labels[p] >= 0 =>
           \/ DbsCore(p)
           \/ \E q \in 1..dbs.n :
                DbsCore(q) /\ DbsWithin(p, q) /\ dbs.labels[q] = dbs.labels[p]

\* C12 witness: with min_samples = 3, a labelled row that is not core next
\* to a row labelled -1
C12_Witness ==
  /\ dbs.pc = "clustered"
  /\ dbs.min_samples = 3
  /\ \E p, q \in 1..dbs.n :
       /\ ~DbsCore(p) /\ dbs.labels[p] >= 0
       /\ dbs.labels[q] = -1

RECURSIVE ChainClosure(_, _)
\* the rows of `allowed` joined to a row of S by a sequence of rows of
\* `allowed` with consecutive distances within eps
ChainClosure(allowed, S) ==
  LET T == S \cup {t \in allowed : \E r \in S : DbsWithin(r, t)}
  IN  IF T = S THEN S ELSE ChainClosure(allowed, T)

\* core rows p and q are joined by a sequence of core rows with consecutive
\* distances within eps
CoreChain(p, q) ==
  LET cores == {r \in 1..dbs.n : DbsCore(r)}
  IN  p \in cores /\ q \in ChainClosure(cores, {p})

\* C13: two core rows joined by a chain of core rows get the same cluster
\* id, also when they are farther apart than eps.
C13_ChainIsOneCluster ==
  dbs.pc = "clustered" =>
    LET cores == {r \in 1..dbs.n : DbsCore(r)}
    IN  \A p \in cores :
          \A q \in ChainClosure(cores, {p}) :
            dbs.labels[p] = dbs.labels[q] /\ dbs.labels[p] >= 0

\* C13 witness: min_samples = 2 and rows 1, 2, 3 with d(1,2) <= eps,
\* d(2,3) <= eps, d(1,3) > eps; all three carry one id
C13_Witness ==
  /\ dbs.pc = "clustered"
  /\ dbs.min_samples = 2
  /\ dbs.n = 3
  /\ dbs.dist[{1, 2}] <= eps
  /\ dbs.dist[{2, 3}] <= eps
  /\ dbs.dist[{1, 3}] > eps
  /\ CoreChain(1, 3)
  /\ dbs.labels = << 0, 0, 0 >>

\* rows a and b are joined, leaving row v out, by a chain of rows with
\* consecutive distances within eps
JoinedWithout(v, a, b) == b \in ChainClosure((1..dbs.n) \ {v}, {a})

\* row v lies within eps of a member of each of two groups of at least two
\* rows that are not joined to each other apart from v
Bridges(v, a, b) ==
  /\ v # a /\ v # b /\ a # b
  /\ DbsWithin(v, a)
  /\ DbsWithin(v, b)
  /\ ~JoinedWithout(v, a, b)
  /\ \E a2 \in (1..dbs.n) \ {v, a} : DbsWithin(a, a2)
  /\ \E b2 \in (1..dbs.n) \ {v, b} : DbsWithin(b, b2)

\* C14 as stated: with eps = 0.3 and min_samples = 2, a single row within
\* eps of members of two groups otherwise farther than eps apart does not
\* give the two groups the same cluster id.
C14_BridgeDoesNotMerge ==
  (dbs.pc = "clustered" /\ dbs.min_samples = min_samples) =>
    \A v, a, b \in 1..dbs.n :
      Bridges(v, a, b) => dbs.labels[a] # dbs.labels[b]

\* C14 as amended: with eps = 0.3 and min_samples = 2, a row within eps of
\* members of two groups is itself a core row, and the two groups and the
\* row all receive the same cluster id.
C14_BridgeMerges ==
  (dbs.pc = "clustered" /\ dbs.min_samples = min_samples) =>
    \A v, a, b \in 1..dbs.n :
      Bridges(v, a, b) =>
        /\ dbs.labels[v] >= 0
        /\ dbs.labels[a] = dbs.labels[v]
        /\ dbs.labels[b] = dbs.labels[v]
        /\ \A r \in ChainClosure((1..dbs.n) \ {v}, {a, b}) :
             dbs.labels[r] = dbs.labels[v]

\* C14 witness: groups {1, 2} and {3, 4}, far from each other, and row 5
\* within eps of rows 1 and 3 only; all five rows carry id 0
C14_Witness ==
  /\ dbs.pc = "clustered"
  /\ dbs.min_samples = min_samples
  /\ dbs.n = 5
  /\ Bridges(5, 1, 3)
  /\ DbsWithin(1, 2) /\ DbsWithin(3, 4)
  /\ ~DbsWithin(5, 2) /\ ~DbsWithin(5, 4)
  /\ dbs.labels = << 0, 0, 0, 0, 0 >>

\* C15: with eps = 0.3 and min_samples = 2, when one group of at least two
\* rows is pairwise within eps and every other row is farther than eps from
\* all rows, the group gets id 0 and every other row -1; with no row, one
\* row or only distant rows the result is empty or all -1.
C15_OneGroupAndOutliers ==
  (dbs.pc = "clustered" /\ dbs.min_samples = min_samples) =>
    /\ Len(dbs.labels) = dbs.n
    /\ \A G \in SUBSET (1..dbs.n) :
         ( /\ Cardinality(G) >= 2
           /\ \A p, q \in G : DbsWithin(p, q)
           /\ \A p \in (1..dbs.n) \ G :
                \A q \in (1..dbs.n) \ {p} : ~DbsWithin(p, q) )
           => dbs.labels = [p \in 1..dbs.n |-> IF p \in G THEN 0 ELSE -1]
    /\ (\A p, q \in 1..dbs.n : p # q => ~DbsWithin(p, q))
         => dbs.labels = [p \in 1..dbs.n |-> -1]

\* C15 witness: three rows pairwise within eps followed by one distant row
C15_Witness ==
  /\ dbs.pc = "clustered"
  /\ dbs.min_samples = min_samples
  /\ dbs.n = 4
  /\ \A p, q \in 1..3 : DbsWithin(p, q)
  /\ \A p \in 1..3 : ~DbsWithin(4, p)
  /\ dbs.labels = << 0, 0, 0, -1 >>

\* ============================ RepresentativeSelector on its own
\* the weight pairs given to the constructor, in thousandths
WeightPairs ==
  { << 0, 0 >>, << 500, 500 >>, << 1000, 0 >>, << 0, 1000 >>,
    << 200, 800 >>, << 250, 250 >> }

\* candidates: a terse trusted one, a detailed untrusted one, two that score
\* alike under equal weights (0.55), and a trusted one of exactly 500
\* characters
Profiles ==
  { [ title |-> 4,   description |-> 6,   source |-> "Chosun" ],
    [ title |-> 50,  description |-> 750, source |-> "Other" ],
    [ title |-> 10,  description |-> 40,  source |-> "Chosun" ],
    [ title |-> 100, description |-> 300, source |-> "Other" ],
    [ title |-> 100, description |-> 400, source |-> "MK" ] }

\* the candidate lists: position k holds the article with id k
Candidates(n) ==
  { [k \in 1..n |-> [ id |-> k, title |-> f[k].title,
                      description |-> f[k].description,
                      source |-> f[k].source ]] :
      f \in [1..n -> Profiles] }

InitSelect ==
  /\ PipelineOff
  /\ IdleButSel
  /\ \E w \in WeightPairs, n \in 0..MaxCands :
       \E arts \in Candidates(n) :
         sel = [ pc |-> "new", args |-> w, self |-> NULL, articles |-> arts,
                 cluster_ids |-> << >>, out |-> NULL ]

\* RepresentativeSelector(information_weight=..., source_reliability_weight=...)
Construct ==
  /\ sel.pc = "new"
  /\ sel' = [sel EXCEPT
               !.self = Some(RepresentativeSelector(sel.args[1], sel.args[2],
                                                    trusted_sources)),
               !.pc = "ready"]
  /\ UNCHANGED << pipelineVars, allButSel >>

\* selector.select(articles)
Select ==
  /\ sel.pc = "ready"
  /\ sel' = [sel EXCEPT !.out = Some(select(sel.self[1], sel.articles)),
                        !.pc = "selected"]
  /\ UNCHANGED << pipelineVars, allButSel >>

\* selector.select_from_clusters(articles, cluster_ids)
SelectFromClusters ==
  /\ sel.pc = "ready"
  /\ \E cids \in [1..Len(sel.articles) -> -1..1] :
       sel' = [sel EXCEPT
                 !.cluster_ids = cids,
                 !.out = Some(select_from_clusters(sel.self[1], sel.articles,
                                                   cids)),
                 !.pc = "mapped"]
  /\ UNCHANGED << pipelineVars, allButSel >>

NextSelect ==
  \/ Construct
  \/ Select
  \/ SelectFromClusters

SpecSelect == InitSelect /\ [][NextSelect]_vars

\* the score of the contract, from the weights the selector holds:
\* wInfo * min((len(title)+len(description))/500, 1)
\*   + wSource * (1.0 if trusted else 0.3), in millionths
ContractScore(a) ==
  LET len == a.title + a.description
      info == IF 2 * len >= 1000 THEN 1000 ELSE 2 * len
      rel == IF a.source \in trusted_sources THEN 1000 ELSE 300
  IN  sel.self[1].information_weight * info
        + sel.self[1].source_reliability_weight * rel

\* C16: select returns a candidate whose score is the maximum over all
\* candidates; with wInfo = wSource = 0.5 an untrusted candidate with 800
\* characters of text outranks a trusted candidate with 10 characters.
C16_MaxScoreSelected ==
  (sel.pc = "selected" /\ sel.articles # << >>) =>
    LET rep == sel.out[1].representative
    IN  /\ rep # NULL
        /\ \E k \in 1..Len(sel.articles) : sel.articles[k] = rep[1]
        /\ \A k \in 1..Len(sel.articles) :
             ContractScore(rep[1]) >= ContractScore(sel.articles[k])
        /\ ( /\ sel.self[1].information_weight = 500
             /\ sel.self[1].source_reliability_weight = 500
             /\ \E k \in 1..Len(sel.articles) :
                  /\ sel.articles[k].source \notin trusted_sources
                  /\ sel.articles[k].title + sel.articles[k].description = 800 )
             => ~ ( /\ rep[1].source \in trusted_sources
                    /\ rep[1].title + rep[1].description = 10 )

\* C16 witness: equal weights, the terse trusted candidate first and the
\* detailed untrusted one second; the second is returned
C16_Witness ==
  /\ sel.pc = "selected"
  /\ sel.args = << 500, 500 >>
  /\ Len(sel.articles) = 2
  /\ sel.articles[1].source \in trusted_sources
  /\ sel.articles[1].title + sel.articles[1].description = 10
  /\ sel.articles[2].source \notin trusted_sources
  /\ sel.articles[2].title + sel.articles[2].description = 800
  /\ sel.out[1].representative = Some(sel.articles[2])
  /\ ContractScore(sel.articles[2]) = 650000
  /\ ContractScore(sel.articles[1]) = 510000

\* C17: when several candidates share the maximal score, select returns the
\* one that appears first in the input order.
C17_FirstMaxWins ==
  (sel.pc = "selected" /\ sel.articles # << >>) =>
    LET rep == sel.out[1].representative[1]
        best == {k \in 1..Len(sel.articles) :
                   \A j \in 1..Len(sel.articles) :
                     ContractScore(sel.articles[k])
                       >= ContractScore(sel.articles[j])}
    IN  /\ rep.id \in best
        /\ \A k \in best : rep.id <= k

\* C17 witness: three candidates, the last two different and tied at the
\* maximal score, the first one lower; the second is returned
C17_Witness ==
  /\ sel.pc = "selected"
  /\ Len(sel.articles) = 3
  /\ ContractScore(sel.articles[2]) = ContractScore(sel.articles[3])
  /\ ContractScore(sel.articles[1]) < ContractScore(sel.articles[2])
  /\ sel.articles[2].source # sel.articles[3].source
  /\ sel.out[1].representative = Some(sel.articles[2])

\* C18: select_from_clusters returns a map whose key set is exactly the set
\* of non-negative cluster ids occurring in the assignments (never -1), and
\* whose value for id c is one of the candidates assigned to c; a cluster
\* with a single member maps to that member without scoring.
C18_OneRepresentativePerCluster ==
  sel.pc = "mapped" =>
    LET reps == sel.out[1].representatives
        n == Len(sel.articles)
        ids == {sel.cluster_ids[k] : k \in 1..n}
    IN  /\ DOMAIN reps = {c \in ids : c >= 0}
        /\ -1 \notin DOMAIN reps
        /\ \A c \in DOMAIN reps :
             /\ \E k \in 1..n :
                  sel.cluster_ids[k] = c /\ reps[c] = sel.articles[k]
             /\ Cardinality({k \in 1..n : sel.cluster_ids[k] = c}) = 1
                  => sel.out[1].scored[c] = << >>

\* C18 witness: a cluster of two, a cluster of one and nothing scored for
\* the latter, or an outlier next to a cluster
C18_WitnessOutlier ==
  /\ sel.pc = "mapped"
  /\ sel.cluster_ids = << 1, -1, 1 >>
  /\ DOMAIN sel.out[1].representatives = {1}
  /\ Len(sel.out[1].scored[1]) = 2

\* a singleton cluster is mapped to its member
C18_Witness ==
  /\ sel.pc = "mapped"
  /\ sel.cluster_ids = << 0, 1, 0 >>
  /\ sel.out[1].representatives[1] = sel.articles[2]
  /\ sel.out[1].scored[1] = << >>
  /\ Len(sel.out[1].scored[0]) = 2

\* C19: constructing the selector with both scoring weights equal to zero
\* fails with a configuration error; no selector with both weights zero is
\* ever created and used for scoring.
C19_ZeroWeightsRejected ==
  /\ (sel.pc # "new" /\ sel.args = << 0, 0 >>) => sel.self = NULL
  /\ sel.self # NULL =>
       ~ ( /\ sel.self[1].information_weight = 0
           /\ sel.self[1].source_reliability_weight = 0 )

\* ============================ the information score on its own
\* two articles, the second one character longer than the first, in the
\* hands of the configured selector
InitInfo ==
  /\ PipelineOff
  /\ IdleButSel
  /\ \E t \in 0..MaxTitleLen, d \in 0..MaxTextLen :
       sel = [ pc |-> "texts", args |-> SelIdle.args,
               self |-> Some(representative_selector),
               articles |->
                 << [ id |-> 1, title |-> t, description |-> d,
                      source |-> "Other" ],
                    [ id |-> 2, title |-> t, description |-> d + 1,
                      source |-> "Other" ] >>,
               cluster_ids |-> << >>, out |-> NULL ]

\* selector._calculate_information_score(article) for each of the two
ScoreInformation ==
  /\ sel.pc = "texts"
  /\ sel' = [sel EXCEPT
               !.out = Some([k \in 1..Len(sel.articles) |->
                               _calculate_information_score(sel.articles[k])]),
               !.pc = "info"]
  /\ UNCHANGED << pipelineVars, allButSel >>

NextInfo == ScoreInformation

SpecInfo == InitInfo /\ [][NextInfo]_vars

\* combined length of the text of an article
CombinedLen(a) == a.title + a.description

\* C20: the information score is strictly increasing in the combined length
\* len(title)+len(description) for lengths 0..500 and equals 1.0 for every
\* length >= 500.
C20_InformationScoreMonotone ==
  sel.pc = "info" =>
    LET len == CombinedLen(sel.articles[1])
        scores == sel.out[1]
    IN  /\ CombinedLen(sel.articles[2]) = len + 1
        /\ len < 500 => scores[1] < scores[2]
        /\ len >= 500 => scores[1] = 1000 /\ scores[2] = 1000
        /\ len = 0 => scores[1] = 0
        /\ scores[1] \in 0..1000

\* C20 witness: the last step of the rise, 499 and 500 characters, and a
\* pair on the plateau
C20_Witness ==
  /\ sel.pc = "info"
  /\ CombinedLen(sel.articles[1]) = 499
  /\ sel.out[1][1] < 1000
  /\ sel.out[1][2] = 1000

C20_WitnessPlateau ==
  /\ sel.pc = "info"
  /\ CombinedLen(sel.articles[1]) = 600
  /\ sel.out[1] = << 1000, 1000 >>

\* ============================ claims on the pipeline, continued
\* C21: when Fetch returns an empty batch, run returns a statistics record
\* in which every counter is 0, raises no exception, calls neither the
\* classifier nor Persist (no stage after Fetch runs), and leaves the store
\* unchanged.
C21_EmptyBatchIsNoOp ==
  (pc \notin {"idle", "off"} /\ articles = << >> /\ exc = "none") =>
    /\ pc = "done"
    /\ returned = [ kind |-> "return", stats |-> Stats0, exc |-> "none" ]
    /\ stats = Stats0
    /\ log = << >>
    /\ embeddings = {} /\ cluster_ids = << >>
    /\ responses = << >> /\ classifications = << >>
    /\ objs = << >>
    /\ store = store_before

\* C21 witness: a run over a store without raw rows has returned
C21_Witness ==
  /\ pc = "done"
  /\ \A i \in Items : store[i].status = "processed"
  /\ articles = << >>
  /\ exc = "none"
  /\ returned.kind = "return"
  /\ returned.stats = Stats0

\* C24: Persist is one commit per batch: if an error occurs while persisting
\* any item of the batch, the store shows none of that run's updates, the
\* processed counter stays 0 and errors is incremented; otherwise all items
\* of the batch are committed together.
C24_OneCommitPerBatch ==
  (pc = "done" /\ articles # << >>) =>
    /\ exc = "persist" =>
         /\ store = store_before
         /\ returned.stats.processed = 0
         /\ returned.stats.errors = 1
    /\ exc = "none" =>
         \A i \in Range(articles) :
           store[i] = objs[i] /\ store[i].status = "processed"

\* the classification fields of a row
ClassificationFields(row) ==
  << row.classified_categories, row.tags, row.classification_confidence >>

\* C25: a run writes classification fields (categories, tags, confidence)
\* only on items it marks cluster_representative = true; on every item it
\* marks cluster_representative = false those fields are left as they were,
\* on the article objects the run updates and in the store.
C25_ClassificationOnlyOnRepresentatives ==
  pc = "done" =>
    \A i \in Range(articles) :
      /\ ClassificationFields(objs[i]) # ClassificationFields(store_before[i])
           => objs[i].cluster_representative = Some(TRUE)
      /\ objs[i].cluster_representative = Some(FALSE)
           => ClassificationFields(objs[i])
                = ClassificationFields(store_before[i])
      /\ ClassificationFields(store[i]) # ClassificationFields(store_before[i])
           => store[i].cluster_representative = Some(TRUE)

\* C25 witness: Persist has handled a cluster of two classified with a valid
\* category: the representative carries the classification, the other
\* member does not
C25_Witness ==
  /\ PersistCompleted
  /\ \E c \in ClusterIdsOfRun :
       \E r, m \in MembersOf(c) :
         /\ objs[r].cluster_representative = Some(TRUE)
         /\ objs[r].classified_categories # NULL
         /\ objs[r].classification_confidence # NULL
         /\ objs[m].cluster_representative = Some(FALSE)
         /\ objs[m].status = "processed"
         /\ ClassificationFields(objs[m]) = << NULL, NULL, NULL >>

\* C29: on every run over a non-empty batch that completes without error,
\* fetched = embedded = processed, deduplicated = number of items with
\* cluster id >= 0 <= fetched, and classified = representatives_selected =
\* number of distinct non-negative cluster ids.
C29_StatisticsConsistent ==
  PersistCompleted =>
    LET st == returned.stats
        inClusters == {k \in 1..Len(articles) : cluster_ids[k] >= 0}
    IN  /\ st.fetched = Len(articles)
        /\ st.embedded = st.fetched
        /\ st.processed = st.fetched
        /\ st.deduplicated = Cardinality(inClusters)
        /\ st.deduplicated <= st.fetched
        /\ st.representatives_selected = Cardinality(ClusterIdsOfRun)
        /\ st.classified = st.representatives_selected
        /\ st.errors = 0

\* C29 witness: a completed run over a cluster of two and an outlier
C29_Witness ==
  /\ PersistCompleted
  /\ Len(articles) = 3
  /\ Cardinality(ClusterIdsOfRun) = 1
  /\ -1 \in Range(cluster_ids)
  /\ returned.stats.fetched = 3
  /\ returned.stats.deduplicated = 2
  /\ returned.stats.classified = 1

\* ============================ EmbeddingService on its own
\* the texts and the articles of a call with n inputs
Texts(n) == [k \in 1..n |-> k]
TextPairs(n) == [k \in 1..n |-> [ title |-> k, description |-> k + MaxTexts ]]

\* EmbeddingService(...)
InitEmbed ==
  /\ PipelineOff
  /\ IdleButEmb
  /\ emb = [EmbIdle EXCEPT !.pc = "created"]

\* the bookkeeping of a call `op` with n inputs that leaves the service as
\* `after` and returns `result`
Called(op, n, after, result, uses) ==
  /\ emb' = [emb EXCEPT
               !.self = after,
               !.calls = @ + 1,
               !.used = @ \/ uses,
               !.closed = @ \/ op \in {"close", "__exit__"},
               !.last = [ op |-> op, n |-> n, model_before |-> emb.self.model,
                          result |-> result ]]
  /\ UNCHANGED << pipelineVars, allButEmb >>

\* service.embed(text)
CallEmbed ==
  /\ emb.pc = "created"
  /\ emb.calls < MaxCalls
  /\ LET r == embed(emb.self, 1)
     IN  Called("embed", 1, r.self, << r.result >>, TRUE)

\* service.embed_batch(texts)
CallEmbedBatch ==
  /\ emb.pc = "created"
  /\ emb.calls < MaxCalls
  /\ \E n \in 0..MaxTexts :
       LET r == embed_batch(emb.self, Texts(n))
       IN  Called("embed_batch", n, r.self, r.result, TRUE)

\* service.embed_articles(articles)
CallEmbedArticles ==
  /\ emb.pc = "created"
  /\ emb.calls < MaxCalls
  /\ \E n \in 0..MaxTexts :
       LET r == embed_articles(emb.self, TextPairs(n))
       IN  Called("embed_articles", n, r.self, r.result, TRUE)

\* `with service:` is entered
Enter ==
  /\ emb.pc = "created"
  /\ emb.calls < MaxCalls
  /\ Called("__enter__", 0, __enter__(emb.self), << >>, TRUE)

\* the `with` block is left
Exit ==
  /\ emb.pc = "created"
  /\ emb.calls < MaxCalls
  /\ Called("__exit__", 0, __exit__(emb.self), << >>, FALSE)

\* service.close()
Close ==
  /\ emb.pc = "created"
  /\ emb.calls < MaxCalls
  /\ Called("close", 0, close(emb.self), << >>, FALSE)

NextEmbed ==
  \/ CallEmbed
  \/ CallEmbedBatch
  \/ CallEmbedArticles
  \/ Enter
  \/ Exit
  \/ Close

SpecEmbed == InitEmbed /\ [][NextEmbed]_vars

\* C22: calling embed_articles / embed_batch with an empty input returns an
\* empty matrix without loading or invoking the model: a service whose model
\* is unloaded before the call still has it unloaded after the call.
C22_EmptyEmbedLeavesModelUnloaded ==
  ( /\ emb.last.op \in {"embed_batch", "embed_articles"}
    /\ emb.last.n = 0 ) =>
      /\ emb.last.result = << >>
      /\ emb.last.model_before = NULL => emb.self.model = NULL

\* C23: over any sequence of embed, __enter__ and close calls on one
\* EmbeddingService, the model is not loaded before the first embedding use
\* (a call of an embed operation or of __enter__), is loaded at most once,
\* and once close has been called the service holds no loaded model from
\* then on.
C23_ModelIsScoped ==
  /\ emb.self.model # NULL => emb.used
  /\ emb.self.loads <= 1
  /\ emb.closed => emb.self.model = NULL

\* ============================ LocalSink on its own
\* the formats a sink is created with ("xml" is not supported)
Formats == {"json", "csv", "xml"}

\* the batches given to write: n items of one crawler, with or without a
\* source attribute
Batches ==
  { [k \in 1..n |-> [ id |-> k, source |-> src ]] :
      n \in 0..MaxSinkItems, src \in {NULL, Some("naver")} }

\* LocalSink(output_dir, format) on an empty directory
InitLocalSink ==
  /\ PipelineOff
  /\ IdleButLsink
  /\ \E fmt \in Formats :
       lsink = [LSinkIdle EXCEPT !.pc = "open", !.self = [ format |-> fmt ]]

\* sink.write(items)
Write ==
  /\ lsink.pc = "open"
  /\ lsink.calls < MaxSinkCalls
  /\ \E items \in Batches, fault \in Faults :
       LET r == write(lsink.self, lsink.files, items, lsink.now, fault)
       IN  lsink' = [lsink EXCEPT
                       !.files = r.files,
                       !.calls = @ + 1,
                       !.last = [ items |-> items, fault |-> fault,
                                  result |-> r.result, opened |-> r.opened,
                                  raised |-> r.raised,
                                  files_before |-> lsink.files ]]
  /\ UNCHANGED << pipelineVars, allButLsink >>

\* a second passes between two calls
Tick ==
  /\ lsink.pc = "open"
  /\ lsink.now < MaxClock
  /\ lsink' = [lsink EXCEPT !.now = @ + 1]
  /\ UNCHANGED << pipelineVars, allButLsink >>

NextLocalSink ==
  \/ Write
  \/ Tick

SpecLocalSink == InitLocalSink /\ [][NextLocalSink]_vars

\* C26: LocalSink.write never raises and accounts for every item: for an
\* empty list it returns created = 0 and failed = 0 and writes no file; for
\* n > 0 items it returns created = n, failed = 0 after writing exactly one
\* file, or created = 0, failed = n when writing fails (including an
\* unsupported format), so created + failed = n on every call.
C26_LocalSinkAccountsForItems ==
  lsink.calls > 0 =>
    LET n == Len(lsink.last.items)
        res == lsink.last.result
        failing == lsink.last.fault # "none"
                     \/ lsink.self.format \notin {"json", "csv"}
    IN  /\ ~lsink.last.raised
        /\ res.created + res.failed = n
        /\ res.updated = 0 /\ res.duplicates = 0
        /\ n = 0 => /\ res.created = 0 /\ res.failed = 0
                    /\ lsink.last.opened = << >>
                    /\ lsink.files = lsink.last.files_before
        /\ (n > 0 /\ ~failing) =>
             /\ res.created = n /\ res.failed = 0
             /\ Len(lsink.last.opened) = 1
             /\ lsink.files[lsink.last.opened[1]] = lsink.last.items
             /\ \A f \in DOMAIN lsink.last.files_before :
                  f # lsink.last.opened[1] =>
                    lsink.files[f] = lsink.last.files_before[f]
        /\ (n > 0 /\ failing) => res.created = 0 /\ res.failed = n

\* C26 witness: a csv sink has written a batch of two into one new file and
\* then failed on a further batch
C26_Witness ==
  /\ lsink.calls = 2
  /\ lsink.self.format = "csv"
  /\ Len(lsink.last.items) = 2
  /\ lsink.last.fault = "dump"
  /\ lsink.last.result = [SinkResult0 EXCEPT !.failed = 2]
  /\ \E f \in DOMAIN lsink.files : Len(lsink.files[f]) = 2

\* ============================ the two groupings side by side
\* the distance matrix of 0..MaxPoints rows, given to a DeduplicationService
\* with the configured min_samples and to _group_by_similarity
InitGroup ==
  /\ PipelineOff
  /\ IdleButDbs
  /\ \E n \in 0..MaxPoints :
       \E dist \in [{x \in SUBSET (1..n) : Cardinality(x) = 2} -> Distances] :
         dbs = [ pc |-> "input", n |-> n, dist |-> dist,
                 min_samples |-> min_samples, labels |-> << >>,
                 groups |-> << >> ]

\* _group_by_similarity(similarity_matrix, articles) on the same rows
GroupBySimilarity ==
  /\ dbs.pc = "clustered"
  /\ dbs' = [dbs EXCEPT !.groups = _group_by_similarity(dbs.dist, dbs.n),
                        !.pc = "grouped"]
  /\ UNCHANGED << pipelineVars, allButDbs >>

NextGroup ==
  \/ ClusterPoints
  \/ GroupBySimilarity

SpecGroup == InitGroup /\ [][NextGroup]_vars

\* rows a, b, c form a reachability chain whose ends are not directly
\* similar
IsChain(a, b, c) ==
  /\ a # b /\ b # c /\ a # c
  /\ DbsWithin(a, b)
  /\ DbsWithin(b, c)
  /\ ~DbsWithin(a, c)

\* the greedy grouping has put all rows of S in one group
InOneGroup(S) ==
  \E g \in 1..Len(dbs.groups) : S \subseteq Range(dbs.groups[g])

\* C28 as stated: on every reachability chain a-b-c where a and c are not
\* directly similar, the greedy grouping does not put a, b and c in one
\* group while the density-reachability grouping does.
C28_GreedySplitsEveryChain ==
  dbs.pc = "grouped" =>
    \A a, b, c \in 1..dbs.n :
      IsChain(a, b, c) =>
        /\ dbs.labels[a] >= 0
        /\ dbs.labels[a] = dbs.labels[b] /\ dbs.labels[b] = dbs.labels[c]
        /\ ~InOneGroup({a, b, c})

\* C28 as amended: on a reachability chain a-b-c where a and c are not
\* directly similar, the density-reachability grouping puts a, b and c in
\* one cluster, and the greedy grouping puts them in one group only when the
\* first row of that group is b or another row directly similar to all
\* three; for the batch a, b, c in this order it yields the group {a, b}
\* only.
C28_GreedySplitsChainUnlessSeeded ==
  dbs.pc = "grouped" =>
    /\ \A a, b, c \in 1..dbs.n :
         IsChain(a, b, c) =>
           /\ dbs.labels[a] >= 0
           /\ dbs.labels[a] = dbs.labels[b] /\ dbs.labels[b] = dbs.labels[c]
           /\ \A g \in 1..Len(dbs.groups) :
                {a, b, c} \subseteq Range(dbs.groups[g]) =>
                  /\ dbs.groups[g][1] \notin {a, c}
                  /\ \A y \in {a, b, c} : DbsWithin(dbs.groups[g][1], y)
    /\ (dbs.n = 3 /\ IsChain(1, 2, 3)) => dbs.groups = << << 1, 2 >> >>

\* C28 witness: the batch a, b, c in chain order: one cluster, but the
\* greedy group holds a and b only
C28_Witness ==
  /\ dbs.pc = "grouped"
  /\ dbs.n = 3
  /\ IsChain(1, 2, 3)
  /\ dbs.labels = << 0, 0, 0 >>
  /\ dbs.groups = << << 1, 2 >> >>
  /\ ~InOneGroup({1, 2, 3})

\* ============================ DBSink on its own
\* the batches given to write: up to MaxSinkItems items, each with one of
\* MaxUrls urls or with none
SinkBatches ==
  UNION { [1..n -> {[ url |-> u ] : u \in {NULL} \cup {Some(k) : k \in 1..MaxUrls}}] :
            n \in 0..MaxSinkItems }

\* DBSink(database_url, target_table, model_class) on empty tables
InitDBSink ==
  /\ PipelineOff
  /\ IdleButDbsink
  /\ \E target \in {"staging", "domain"}, mc \in BOOLEAN,
        dialect \in {"postgresql", "sqlite"} :
       dbsink = [DBSinkIdle EXCEPT
                   !.pc = "open",
                   !.self = [ target_table |-> target, model_class |-> mc,
                              dialect |-> dialect ]]

\* sink.write(items); the database raises at one of the items, at the
\* commit, or not at all
SinkWrite ==
  /\ dbsink.pc = "open"
  /\ dbsink.calls < MaxSinkCalls
  /\ \E items \in SinkBatches :
       \E fault \in 0..(Len(_dedup_batch(items)) + 1) :
         LET r == sink_write(dbsink.self, dbsink.db, items, fault)
         IN  dbsink' = [dbsink EXCEPT
                          !.db = r.db,
                          !.calls = @ + 1,
                          !.last = [ items |-> items, fault |-> fault,
                                     result |-> r.result,
                                     db_before |-> dbsink.db ]]
  /\ UNCHANGED << pipelineVars, allButDbsink >>

NextDBSink == SinkWrite

SpecDBSink == InitDBSink /\ [][NextDBSink]_vars

\* the committed writes of the last call: rows added to staging_raw_items
\* plus writes committed to the domain table
CommittedByLastCall ==
  LET before == dbsink.last.db_before
      after == dbsink.db
      written(u) == (IF u \in DOMAIN after.domain THEN after.domain[u] ELSE 0)
                      - (IF u \in DOMAIN before.domain
                         THEN before.domain[u] ELSE 0)
      urls == DOMAIN after.domain
  IN  (Len(after.staging) - Len(before.staging))
        + Cardinality({u \in urls : written(u) = 1})

\* C30: for every DBSink.write call, on the staging and the domain path, on
\* success and on a failure part-way through the batch, created + updated +
\* duplicates + failed = number of input items, and the items counted as
\* created or updated are committed.
C30_DBSinkCountsAddUp ==
  dbsink.calls > 0 =>
    LET res == dbsink.last.result
    IN  /\ res.created + res.updated + res.duplicates + res.failed
             = Len(dbsink.last.items)
        /\ res.created + res.updated = CommittedByLastCall


\* ============================================ two runs on the same table
\* Two processes call DataProcessor.run() on the same table.  A run touches
\* the table twice, in the query of _fetch_raw_articles and in the commit of
\* _update_database; the stages between them work on the locals of the call.

\* the answers of the external classifier in these runs
ConcResponses ==
  { ApiResponse("text", "json",
      JsonObject(Some(<< "Policy/Regulation", "Finance/Investment" >>),
                 Some(<< "PF" >>), Some(95))),
    ApiResponse("text", "json",
      JsonObject(Some(<< "Gossip" >>), Some(<< "star" >>), Some(90))) }

\* a run is between its fetch and its commit
InFlight(r) == conc.run[r].pc \in {"fetched", "classified"}

InitConcurrent ==
  /\ PipelineOff
  /\ IdleButConc
  /\ \E st \in [Items -> {"raw", "processed"}] :
       conc = [ConcIdle EXCEPT !.store = [i \in Items |-> RawRow(i, st[i])]]

\* run(), step 1 of process r: the query of _fetch_raw_articles (limit=None)
\* and the early return on an empty result
ConcFetch ==
  /\ \E r \in Procs :
       /\ conc.run[r].pc = "idle"
       /\ \E arts \in _fetch_raw_articles(conc.store, 0) :
            conc' = [conc EXCEPT
                       !.run[r] = [ @ EXCEPT
                          !.pc = IF arts = << >> THEN "done" ELSE "fetched",
                          !.articles = arts,
                          !.objs = [i \in Range(arts) |-> conc.store[i]],
                          !.overlapped =
                              \E q \in Procs \ {r} : InFlight(q) ]]
  /\ UNCHANGED << pipelineVars, allButConc >>

\* run(), steps 2 to 5 of process r: embeddings, clusters, representatives
\* and one classify call per representative
ConcProcess ==
  /\ \E r \in Procs :
       /\ conc.run[r].pc = "fetched"
       /\ \E m \in EmbeddingsOf(Len(conc.run[r].articles)),
             answer \in ConcResponses :
            LET arts == conc.run[r].articles
                cids == cluster(m, Len(arts), min_samples)
                rep_dicts ==
                  select_from_clusters(representative_selector,
                                       article_dicts(arts),
                                       cids).representatives
                reps == [c \in DOMAIN rep_dicts |-> rep_dicts[c].id]
                cls == _classify_articles(reps,
                                          [c \in DOMAIN reps |-> answer])
            IN  conc' = [conc EXCEPT
                           !.run[r] = [ @ EXCEPT
                              !.pc = "classified",
                              !.cluster_ids = cids,
                              !.representatives = reps,
                              !.classifications = cls ]]
  /\ UNCHANGED << pipelineVars, allButConc >>

\* run(), step 6 of process r: the loop of _update_database and its commit
ConcPersist ==
  /\ \E r \in Procs :
       /\ conc.run[r].pc = "classified"
       /\ LET session == Session
              l == conc.run[r]
              updated == LoopUpdate(l.objs, l.articles, Len(l.articles),
                                    l.cluster_ids, l.representatives,
                                    l.classifications)
          IN  conc' = [conc EXCEPT
                         !.store = commit(conc.store, session, updated),
                         !.last_commit = r,
                         !.run[r] = [ @ EXCEPT !.pc = "done",
                                                !.objs = updated ]]
  /\ UNCHANGED << pipelineVars, allButConc >>

NextConcurrent == ConcFetch \/ ConcProcess \/ ConcPersist

SpecConcurrent == InitConcurrent /\ [][NextConcurrent]_vars

\* the items a run sent to the classifier: the representatives of its
\* clusters
ClassifiedBy(r) ==
  {conc.run[r].representatives[c] : c \in DOMAIN conc.run[r].classifications}

\* both runs have returned
BothDone == \A r \in Procs : conc.run[r].pc = "done"

\* the second fetch happened before the first run committed
Interleaved == \E r \in Procs : conc.run[r].overlapped

\* C27: when two runs on the same table interleave so that the second fetch
\* happens before the first commit, both fetch the same unprocessed items and
\* the table ends with the values of the run that committed last; when the
\* runs are serialized, no item is classified by both.
C27_NoArbitrationBetweenRuns ==
  BothDone =>
    IF Interleaved
    THEN /\ conc.run[1].articles = conc.run[2].articles
         /\ conc.last_commit # 0 =>
              \A i \in Range(conc.run[conc.last_commit].articles) :
                conc.store[i] = conc.run[conc.last_commit].objs[i]
    ELSE ClassifiedBy(1) \cap ClassifiedBy(2) = {}

====
